---- MODULE Spec2Model ----
(***************************************************************************)
(* drgn: the crash "runq" command (drgn/commands/_builtin/crash/runq.py)   *)
(* and the run-queue helpers it is built on                                *)
(* (drgn/helpers/linux/runqueue.py).                                       *)
(*                                                                         *)
(* Three specifications share the module:                                  *)
(*   Spec      one invocation of dump_run_queue, one step per loop         *)
(*             iteration, reads of the target failing nondeterministically *)
(*   SpecWalk  get_rt_runq_tasks and get_cfs_runq_tasks applied to a       *)
(*             run-queue drawn from every bounded list layout              *)
(*   SpecTs    timestamp_str applied to bounded nanosecond inputs          *)
(*                                                                         *)
(* The target's memory is not part of the state: drgn objects are lazy     *)
(* handles, so what a read returns is drawn when the read happens.         *)
(* A task's pid, prio and comm are functions of its address in the target  *)
(* and are not carried; a printed line carries the address it was read     *)
(* from.                                                                   *)
(***************************************************************************)
EXTENDS Integers, Sequences, FiniteSets, TLC

VARIABLES
    pc,            \* position of dump_run_queue: idle, loop, done, failed
    args,          \* argparse.Namespace: the four mutually exclusive flags
    cpus,          \* runq.py:44, the list parse_cpuspec(args.cpus).cpus(prog) returned
    online,        \* the target's online CPUs, ascending (for_each_online_cpu)
    selected_cpus, \* runqueue.py:62-64, the list the generator walks
    i,             \* runq.py:45, enumerate index of the last iteration (-1: none)
    cpu,           \* runq.py:45, loop variable
    runqueue,      \* what the handle of the loop (or of the helper call) points at
    runq_clocks,   \* runq.py:43, dict in insertion order
    table,         \* runq.py:40, buffered rows
    out,           \* standard output, one element per printed line
    err,           \* exception that ended the command ("none": none)
    called,        \* SpecWalk / SpecTs: which functions have been applied
    rt_tasks,      \* list(get_rt_runq_tasks(runqueue))
    cfs_tasks,     \* list(get_cfs_runq_tasks(runqueue))
    ns,            \* SpecTs: the argument of timestamp_str
    ts             \* SpecTs: its result

vars == <<pc, args, cpus, online, selected_cpus, i, cpu, runqueue, runq_clocks,
          table, out, err, called, rt_tasks, cfs_tasks, ns, ts>>

cmdVars == <<pc, args, cpus, online, selected_cpus, i, cpu, runq_clocks,
             table, out, err>>

-----------------------------------------------------------------------------
\* Bounds of the model.

\* possible CPUs are 0 .. MaxCpus-1
MaxCpus == 2

\* longest requested CPU list
MaxCpusLen == 2

\* run-queue clocks are 0 .. MaxClock steps of ClockStep nanoseconds
MaxClock == 2

\* 15 ms: one step of lag is an odd multiple of 5 ms
ClockStep == 15000000

\* tasks of one run-queue are 0 .. MaxTasks-1
MaxTasks == 3

\* modelled levels of rt.active.queue (the kernel has MAX_RT_PRIO of them)
MaxPrio == 2

\* timestamp_str inputs span 0 .. MaxDays whole days
MaxDays == 1

-----------------------------------------------------------------------------
\* Layout of the target, as the debugging information would give it.
\* Addresses are in bytes; any layout with OffRt, OffSeGroupNode < TaskSize does.

TaskBase == 4096

TaskSize == 256

\* offsetof(struct task_struct, se.group_node)
OffSeGroupNode == 80

\* offsetof(struct task_struct, rt)
OffRt == 128

\* offsetof(struct sched_rt_entity, run_list)
OffRunList == 0

RqBase == 65536

RqSize == 4096

\* offsetof(struct rq, rt.active)
OffRtActive == 1024

\* offsetof(struct rq, cfs.tasks_timeline)
OffCfsTimeline == 512

RootTaskGroupAddr == 32768

TaskAddr(t) == TaskBase + t * TaskSize

RqAddr(c) == RqBase + c * RqSize

Tasks == 0 .. (MaxTasks - 1)

Cpus == 0 .. (MaxCpus - 1)

-----------------------------------------------------------------------------
\* Generic helpers.

Range(s) == {s[j] : j \in 1 .. Len(s)}

RECURSIVE Concat(_)
Concat(ss) == IF ss = <<>> THEN <<>> ELSE Head(ss) \o Concat(Tail(ss))

SetMax(S) == CHOOSE m \in S : \A x \in S : x <= m

Digit(d) == <<"0", "1", "2", "3", "4", "5", "6", "7", "8", "9",
              "a", "b", "c", "d", "e", "f">>[d + 1]

\* str(n) of a non-negative int
RECURSIVE ToStr(_)
ToStr(n) == IF n < 10 THEN Digit(n) ELSE ToStr(n \div 10) \o Digit(n % 10)

RECURSIVE Zeros(_)
Zeros(k) == IF k <= 0 THEN "" ELSE "0" \o Zeros(k - 1)

\* format(n, "0w"): zero-padded to at least w characters
ZPad(n, w) == Zeros(w - Len(ToStr(n))) \o ToStr(n)

RECURSIVE HexDigits(_)
HexDigits(n) == IF n < 16 THEN Digit(n) ELSE HexDigits(n \div 16) \o Digit(n % 16)

\* hex(n)
Hex(n) == "0x" \o HexDigits(n)

-----------------------------------------------------------------------------
\* timestamp_str.  A nanosecond count n is the record [q, r] with
\* n = q * 10^6 + r and 0 <= r < 10^6 (Python ints are unbounded; TLC's
\* are 32 bits wide).

\* ns // 1000000
FloorDivMillion(n) == n.q

\* the same with rounding to the nearest millisecond
RoundDivMillion(n) == IF n.r >= 500000 THEN n.q + 1 ELSE n.q

Render(days, hours, mins, secs, ms) ==
    ToStr(days) \o " " \o ZPad(hours, 2) \o ":" \o ZPad(mins, 2) \o ":"
        \o ZPad(secs, 2) \o "." \o ZPad(ms, 3)

timestamp_str_rounding(n) ==
    LET ms_total   == RoundDivMillion(n)
        secs_total == ms_total \div 1000
        mins_total == secs_total \div 60
        hours_total == mins_total \div 60
    IN Render(hours_total \div 24, hours_total % 24, mins_total % 60,
              secs_total % 60, ms_total % 1000)

timestamp_str(n) ==
    LET ms_total   == FloorDivMillion(n)
        secs_total == ms_total \div 1000
        ms         == ms_total % 1000
        mins_total == secs_total \div 60
        secs       == secs_total % 60
        hours_total == mins_total \div 60
        mins       == mins_total % 60
        days       == hours_total \div 24
        hours      == hours_total % 24
    IN Render(days, hours, mins, secs, ms)

-----------------------------------------------------------------------------
\* The run-queue helpers.  A run-queue is [curr, rt, cfs]: the task that
\* runs, the tasks linked into each rt.active.queue[level] and the tasks
\* linked into cfs_tasks, in link order.  The helpers see addresses only:
\* the list nodes embedded in the tasks.

\* runqueue.curr, a struct task_struct *
Curr(rq) == TaskAddr(rq.curr)

\* runqueue.rt.active.queue: per level, the addresses of the linked rt.run_list nodes
RtQueue(rq) ==
    [l \in 1 .. Len(rq.rt) |->
        [j \in 1 .. Len(rq.rt[l]) |-> TaskAddr(rq.rt[l][j]) + OffRt + OffRunList]]

\* runq.cfs_tasks: the addresses of the linked se.group_node nodes
CfsList(rq) == [j \in 1 .. Len(rq.cfs) |-> TaskAddr(rq.cfs[j]) + OffSeGroupNode]

\* list_for_each_entry(type, head, member): each node less offsetof(type, member)
list_for_each_entry(nodes, member_offset) ==
    [j \in 1 .. Len(nodes) |-> nodes[j] - member_offset]

\* container_of(ptr, type, member): ptr less offsetof(type, member)
container_of(ptr, member_offset) == ptr - member_offset

get_rt_runq_tasks_reversed(rq) ==
    LET rt_prio_array == RtQueue(rq)
        n == Len(rt_prio_array)
    IN Concat([l \in 1 .. n |->
          LET que == rt_prio_array[n + 1 - l]
              ts_ == list_for_each_entry(que, OffRunList)
          IN [j \in 1 .. Len(ts_) |-> container_of(ts_[j], OffRt)]])

get_rt_runq_tasks(rq) ==
    LET rt_prio_array == RtQueue(rq)
    IN Concat([l \in 1 .. Len(rt_prio_array) |->
          LET que == rt_prio_array[l]
              ts_ == list_for_each_entry(que, OffRunList)
          IN [j \in 1 .. Len(ts_) |-> container_of(ts_[j], OffRt)]])

get_cfs_runq_tasks(rq) ==
    LET ents == list_for_each_entry(CfsList(rq), OffSeGroupNode)
        kept == SelectSeq(ents, LAMBDA t : t # Curr(rq))
    IN [j \in 1 .. Len(kept) |-> container_of(kept[j], OffRt)]

get_rq_per_cpu(online_cpus, cs) ==
    IF cs # <<>>
    THEN SelectSeq(online_cpus, LAMBDA c : c \in Range(cs))
    ELSE online_cpus

-----------------------------------------------------------------------------
\* Inputs.

\* every ordering of a finite set
Orderings(S) ==
    {s \in [1 .. Cardinality(S) -> S] : \A a, b \in 1 .. Cardinality(S) : a # b => s[a] # s[b]}

\* the tasks p orders that f assigns to list l
ListOf(p, f, l) == SelectSeq(p, LAMBDA t : f[t] = l)

\* Every run-queue over Tasks: a list node is in at most one list, so each
\* task is unlinked (0), on one RT level (1 .. MaxPrio) or on cfs_tasks.
RqShapes ==
    {[curr |-> c,
      rt   |-> [l \in 1 .. MaxPrio |-> ListOf(p, f, l)],
      cfs  |-> ListOf(p, f, MaxPrio + 1)] :
        c \in Tasks, p \in Orderings(Tasks), f \in [Tasks -> 0 .. (MaxPrio + 1)]}

\* rt.active.queue with `first` on level 1 and `last` on the last level
RtArr(first, last) ==
    [l \in 1 .. MaxPrio |-> IF l = 1 THEN first ELSE IF l = MaxPrio THEN last ELSE <<>>]

\* The run-queues a CPU of the command's target may have.
SampleRqs ==
    { [curr |-> 0, rt |-> RtArr(<<>>, <<>>),   cfs |-> <<>>],      \* only a current task
      [curr |-> 0, rt |-> RtArr(<<0>>, <<>>),  cfs |-> <<>>],      \* a running RT task, on its list
      [curr |-> 1, rt |-> RtArr(<<0>>, <<1>>), cfs |-> <<>>],      \* one RT task waits, one runs
      [curr |-> 0, rt |-> RtArr(<<>>, <<>>),   cfs |-> <<0, 1>>],  \* a running CFS task, one waits
      [curr |-> 1, rt |-> RtArr(<<0>>, <<>>),  cfs |-> <<1>>] }    \* RT waits while CFS runs

NoRq == [curr |-> 0, rt |-> RtArr(<<>>, <<>>), cfs |-> <<>>]

\* ascending lists of the non-empty sets of possible CPUs
OnlineLists ==
    {SelectSeq([j \in 1 .. MaxCpus |-> j - 1], LAMBDA c : c \in S) : S \in (SUBSET Cpus) \ {{}}}

CpusLists == UNION {[1 .. n -> Cpus] : n \in 0 .. MaxCpusLen}

\* mutually_exclusive_group(-t, -T, -m, -g): at most one flag is set
ArgSets ==
    {a \in [show_timestamps : BOOLEAN, show_lag : BOOLEAN,
            pretty_runtime : BOOLEAN, group : BOOLEAN] :
        Cardinality({f \in {"show_timestamps", "show_lag", "pretty_runtime", "group"} : a[f]}) <= 1}

NoArgs == [show_timestamps |-> FALSE, show_lag |-> FALSE,
           pretty_runtime |-> FALSE, group |-> FALSE]

ClockValues == {k * ClockStep : k \in 0 .. MaxClock}

Ns(q, r) == [q |-> q, r |-> r]

TsInputs ==
    {Ns(d * 86400000 + h * 3600000 + m * 60000 + s * 1000 + ms, r) :
        d \in 0 .. MaxDays, h \in {0, 1, 23}, m \in {0, 1, 59}, s \in {0, 1, 59},
        ms \in {0, 1, 999}, r \in {0, 499999, 500000, 999999}}

\* task_since_last_arrival_ns(curr_task), as read in the command
RunTimeSamples == {Ns(0, 999999), Ns(90061000, 0)}

-----------------------------------------------------------------------------
\* SpecTs: timestamp_str on bounded inputs.

InitIdle ==
    /\ pc = "idle"
    /\ args = NoArgs
    /\ cpus = <<>>
    /\ selected_cpus = <<>>
    /\ i = -1
    /\ cpu = 0
    /\ runq_clocks = <<>>
    /\ table = <<>>
    /\ out = <<>>
    /\ err = "none"
    /\ called = {}
    /\ rt_tasks = <<>>
    /\ cfs_tasks = <<>>
    /\ ts = ""

InitTs ==
    /\ InitIdle
    /\ online = <<0>>
    /\ runqueue = NoRq
    /\ ns \in TsInputs

CallTimestampStr ==
    /\ "timestamp_str" \notin called
    /\ ts' = timestamp_str(ns)
    /\ called' = called \cup {"timestamp_str"}
    /\ UNCHANGED <<cmdVars, runqueue, rt_tasks, cfs_tasks, ns>>

NextTs == CallTimestampStr

SpecTs == InitTs /\ [][NextTs]_vars

-----------------------------------------------------------------------------
\* SpecWalk: the two walkers on every bounded run-queue.

InitWalk ==
    /\ InitIdle
    /\ online = <<0>>
    /\ ns = Ns(0, 0)
    /\ runqueue \in RqShapes

CallGetRt ==
    /\ "get_rt_runq_tasks" \notin called
    /\ rt_tasks' = get_rt_runq_tasks(runqueue)
    /\ called' = called \cup {"get_rt_runq_tasks"}
    /\ UNCHANGED <<cmdVars, runqueue, cfs_tasks, ns, ts>>

CallGetCfs ==
    /\ "get_cfs_runq_tasks" \notin called
    /\ cfs_tasks' = get_cfs_runq_tasks(runqueue)
    /\ called' = called \cup {"get_cfs_runq_tasks"}
    /\ UNCHANGED <<cmdVars, runqueue, rt_tasks, ns, ts>>

NextWalk == CallGetRt \/ CallGetCfs

SpecWalk == InitWalk /\ [][NextWalk]_vars

-----------------------------------------------------------------------------
\* dump_run_queue.

\* One printed line: what it is, the CPU it is about, the number it shows
\* (an address, a lag) and its text.  A line that also shows a task's pid,
\* prio and comm carries the task address only.
Line(kind, c, val, text) == [kind |-> kind, cpu |-> c, val |-> val, text |-> text]

\* One step of an iteration: a read of the target, which may fail, or a print.
Rd == [read |-> TRUE, line |-> Line("", 0, 0, "")]

Pr(line) == [read |-> FALSE, line |-> line]

\* the lines a sequence of steps prints
Prints(ev) ==
    LET ps == SelectSeq(ev, LAMBDA e : ~e.read)
    IN [j \in 1 .. Len(ps) |-> ps[j].line]

table_format_without_pretty(a) == a.show_timestamps \/ a.show_lag

\* runq.py:39
table_format(a) == a.show_timestamps \/ a.show_lag \/ a.pretty_runtime

IsFirstCpu(idx, cs) == idx = 0

\* runq.py:56, i == len(cpus) - 1
IsLastCpu(idx, cs) == idx = Len(cs) - 1

\* runq_clocks[cpu] = clock on a dict kept in insertion order
DictSet(d, k, v) ==
    IF \E j \in 1 .. Len(d) : d[j].cpu = k
    THEN [j \in 1 .. Len(d) |-> IF d[j].cpu = k THEN [cpu |-> k, clock |-> v] ELSE d[j]]
    ELSE Append(d, [cpu |-> k, clock |-> v])

\* runq.py:57-60
Lags(clocks) ==
    LET max_clock == SetMax({clocks[j].clock : j \in 1 .. Len(clocks)})
    IN [j \in 1 .. Len(clocks) |-> [cpu |-> clocks[j].cpu, lag |-> max_clock - clocks[j].clock]]

\* insertion before the entries of equal lag: an unstable sort
RECURSIVE sorted_lags_unstable(_)
sorted_lags_unstable(lags) ==
    IF lags = <<>> THEN <<>>
    ELSE LET e   == lags[Len(lags)]
             acc == sorted_lags_unstable(SubSeq(lags, 1, Len(lags) - 1))
             n   == Cardinality({j \in 1 .. Len(acc) : acc[j].lag < e.lag})
         IN SubSeq(acc, 1, n) \o <<e>> \o SubSeq(acc, n + 1, Len(acc))

\* runq.py:61, sorted(lags.items(), key=lambda item: item[1]): a stable sort,
\* each entry placed after the entries before it whose lag is not greater
RECURSIVE sorted_lags(_)
sorted_lags(lags) ==
    IF lags = <<>> THEN <<>>
    ELSE LET e   == lags[Len(lags)]
             acc == sorted_lags(SubSeq(lags, 1, Len(lags) - 1))
             n   == Cardinality({j \in 1 .. Len(acc) : acc[j].lag <= e.lag})
         IN SubSeq(acc, 1, n) \o <<e>> \o SubSeq(acc, n + 1, Len(acc))

\* 2^k mod 25
RECURSIVE Pow2Mod25(_)
Pow2Mod25(k) == IF k = 0 THEN 1 ELSE (2 * Pow2Mod25(k - 1)) % 25

RECURSIVE ExpUp(_, _, _)
ExpUp(n, d, e) == IF n >= 2 * d THEN ExpUp(n, 2 * d, e + 1) ELSE e

RECURSIVE ExpDown(_, _)
ExpDown(m, e) == IF m >= 200 THEN e ELSE ExpDown(2 * m, e - 1)

\* the binary exponent of the double n / 200: the E with 2^E <= n / 200 < 2^(E+1)
BinExp(n) == IF n >= 200 THEN ExpUp(n, 200, 0) ELSE ExpDown(n, 0)

\* runq.py:63, format(lag / 1e9, ".2f") for 0 <= lag < 2^31 - 10^7: lag / 1e9
\* is the double nearest to the quotient, and the format rounds that
\* double's exact value to hundredths, half to even.  The double is within
\* 2^-53 of the quotient, so only a lag that is an odd multiple n of 5 ms
\* depends on it: its significand is n * 2^(49-E) / 25 rounded to an
\* integer, below the quotient when the remainder r is at most 12, above it
\* when r is 13 or more, and the quotient itself when r is 0.
Fmt2f(lag) ==
    LET lo  == lag \div 10000000
        rem == lag % 10000000
        n   == lag \div 5000000
        r   == ((n % 25) * Pow2Mod25(49 - BinExp(n))) % 25
        cs  == IF rem < 5000000 THEN lo
               ELSE IF rem > 5000000 THEN lo + 1
               ELSE IF r = 0 THEN (IF lo % 2 = 0 THEN lo ELSE lo + 1)
               ELSE IF r <= 12 THEN lo
               ELSE lo + 1
    IN ToStr(cs \div 100) \o "." \o ZPad(cs % 100, 2)

\* runq.py:61-63
LagLines(clocks) ==
    LET sl == sorted_lags(Lags(clocks))
    IN [j \in 1 .. Len(sl) |->
          Line("lag", sl[j].cpu, sl[j].lag,
               "CPU " \o ToStr(sl[j].cpu) \o ": " \o Fmt2f(sl[j].lag) \o " secs")]

\* runq.py:69-85
Row(a, c, rq, v) ==
    Line("row", c, Curr(rq),
         (IF a.pretty_runtime THEN timestamp_str(v.run_time) ELSE "")
         \o (IF a.show_timestamps
             THEN ZPad(v.clock, 13) \o " " \o ZPad(v.task_ts, 13) ELSE ""))

\* runq.py:132-147, print_table([headers] + table)
TableLines(a, rows) ==
    <<Line("header", 0, 0,
           "CPU PID TASK PRIO COMMAND"
           \o (IF a.pretty_runtime THEN " RUNTIME" ELSE "")
           \o (IF a.show_timestamps THEN " RQ_TIMESTAMP TASK_TIMESTAMP" ELSE ""))>>
    \o rows

Marker(c) == Line("no_tasks", c, 0, "     [no tasks queued]")

TaskLine(kind, c, task) == Line(kind, c, task, Hex(task))

\* runq.py:101-115
RtEvents(c, rq) ==
    LET prio_array == RqAddr(c) + OffRtActive
        rt == get_rt_runq_tasks(rq)
    IN <<Pr(Line("rt_array", c, prio_array - 16,
                 "  RT PRIO_ARRAY: " \o Hex(prio_array - 16))), Rd>>
       \o (IF rt # <<>>
           THEN Concat([j \in 1 .. Len(rt) |->
                    IF rt[j] = Curr(rq) THEN <<Rd>>
                    ELSE <<Rd, Pr(TaskLine("rt_task", c, rt[j]))>>])
           ELSE <<Pr(Marker(c))>>)

\* runq.py:117-129
CfsEvents(c, rq) ==
    LET cfs_root == RqAddr(c) + OffCfsTimeline
        cfs == get_cfs_runq_tasks(rq)
    IN <<Pr(Line("cfs_root", c, cfs_root, "  CFS RB_ROOT: " \o Hex(cfs_root))), Rd>>
       \o (IF cfs # <<>>
           THEN Concat([j \in 1 .. Len(cfs) |-> <<Rd, Pr(TaskLine("cfs_task", c, cfs[j]))>>])
           ELSE <<Pr(Marker(c))>>)

\* runq.py:87-130
VerboseEvents(a, c, rq) ==
    <<Pr(Line("rq", c, RqAddr(c),
              "CPU " \o ToStr(c) \o " RUNQUEUE: " \o Hex(RqAddr(c)))),
      Pr(TaskLine("current", c, Curr(rq)))>>
    \o (IF a.group
        THEN <<Rd,
               Pr(Line("root_group", c, RootTaskGroupAddr,
                       "  ROOT_TASK_GROUP: " \o Hex(RootTaskGroupAddr))),
               Pr(TaskLine("group_current", c, Curr(rq)))>>
        ELSE RtEvents(c, rq) \o CfsEvents(c, rq))
    \o <<Pr(Line("blank", c, 0, ""))>>

\* runq.py:45-130, the reads and prints of one iteration in program order:
\* the generator's step (runqueue.py:59, 67), the current task's fields
\* (runq.py:46-51), then the mode's own
IterEvents(a, c, rq) ==
    <<Rd, Rd>>
    \o (IF a.show_lag THEN <<Rd>>
        ELSE IF table_format(a) THEN (IF a.show_timestamps THEN <<Rd>> ELSE <<>>)
        ELSE VerboseEvents(a, c, rq))

\* what the reads of one iteration return, by the flags that use them
ReadVals(a) ==
    {[clock |-> k, task_ts |-> t, run_time |-> r] :
        k \in (IF a.show_lag \/ a.show_timestamps THEN ClockValues ELSE {0}),
        t \in (IF a.show_timestamps THEN {0, ClockStep} ELSE {0}),
        r \in (IF a.pretty_runtime THEN RunTimeSamples ELSE {Ns(0, 0)})}

Init ==
    /\ InitIdle
    /\ online \in OnlineLists
    /\ runqueue = NoRq
    /\ ns = Ns(0, 0)

\* runq.py:39-45, up to the creation of the generator
Start ==
    /\ pc = "idle"
    /\ \E a \in ArgSets, cs \in CpusLists :
          /\ args' = a
          /\ cpus' = cs
          /\ selected_cpus' = get_rq_per_cpu(online, cs)
    /\ pc' = "loop"
    /\ i' = -1
    /\ table' = <<>>
    /\ runq_clocks' = <<>>
    /\ UNCHANGED <<online, cpu, runqueue, out, err, called, rt_tasks, cfs_tasks, ns, ts>>

\* runq.py:45-130, one iteration in which every read succeeds
Iterate ==
    /\ pc = "loop"
    /\ i + 1 < Len(selected_cpus)
    /\ \E rq \in SampleRqs, v \in ReadVals(args) :
          LET c == selected_cpus[i + 2]
          IN /\ i' = i + 1
             /\ cpu' = c
             /\ runqueue' = rq
             /\ IF args.show_lag
                THEN /\ runq_clocks' = DictSet(runq_clocks, c, v.clock)
                     /\ table' = table
                     /\ IF IsLastCpu(i + 1, cpus)
                        THEN /\ out' = out \o LagLines(runq_clocks')
                             /\ pc' = "done"
                        ELSE /\ out' = out
                             /\ pc' = "loop"
                ELSE IF table_format(args)
                THEN /\ table' = Append(table, Row(args, c, rq, v))
                     /\ UNCHANGED <<runq_clocks, out, pc>>
                ELSE /\ out' = out \o Prints(IterEvents(args, c, rq))
                     /\ UNCHANGED <<runq_clocks, table, pc>>
    /\ UNCHANGED <<args, cpus, online, selected_cpus, err, called, rt_tasks, cfs_tasks, ns, ts>>

\* runq.py:45-130, an iteration one of whose reads raises: what was printed
\* before the read stays printed, and the exception leaves the command
IterateFail ==
    /\ pc = "loop"
    /\ i + 1 < Len(selected_cpus)
    /\ \E rq \in SampleRqs :
          LET c  == selected_cpus[i + 2]
              ev == IterEvents(args, c, rq)
          IN \E p \in {k \in 1 .. Len(ev) : ev[k].read} :
                /\ out' = out \o Prints(SubSeq(ev, 1, p - 1))
                /\ IF p = 1
                   THEN UNCHANGED <<i, cpu, runqueue>>
                   ELSE /\ i' = i + 1
                        /\ cpu' = c
                        /\ runqueue' = rq
    /\ pc' = "failed"
    /\ err' = "AccessorError"
    /\ UNCHANGED <<args, cpus, online, selected_cpus, runq_clocks, table,
                   called, rt_tasks, cfs_tasks, ns, ts>>

\* runqueue.py:59, the generator's first step reads the online CPUs even
\* when it then has nothing to yield
EnumerateFail ==
    /\ pc = "loop"
    /\ i = -1
    /\ selected_cpus = <<>>
    /\ pc' = "failed"
    /\ err' = "AccessorError"
    /\ UNCHANGED <<args, cpus, online, selected_cpus, i, cpu, runqueue, runq_clocks,
                   table, out, called, rt_tasks, cfs_tasks, ns, ts>>

\* runq.py:132-147, the generator is exhausted
Finish ==
    /\ pc = "loop"
    /\ i + 1 = Len(selected_cpus)
    /\ out' = IF table_format(args) THEN out \o TableLines(args, table) ELSE out
    /\ pc' = "done"
    /\ UNCHANGED <<args, cpus, online, selected_cpus, i, cpu, runqueue, runq_clocks,
                   table, err, called, rt_tasks, cfs_tasks, ns, ts>>

Next == Start \/ Iterate \/ IterateFail \/ EnumerateFail \/ Finish

Spec == Init /\ [][Next]_vars

-----------------------------------------------------------------------------
\* Properties of the walkers (SpecWalk).

RtCalled == "get_rt_runq_tasks" \in called

CfsCalled == "get_cfs_runq_tasks" \in called

\* the tasks linked on RT levels before level l
RECURSIVE LinkedBefore(_, _)
LinkedBefore(rq, l) == IF l <= 1 THEN 0 ELSE LinkedBefore(rq, l - 1) + Len(rq.rt[l - 1])

\* the tasks linked into the RT priority array
RtLinked(rq) == UNION {Range(rq.rt[l]) : l \in 1 .. Len(rq.rt)}

\* the level a linked task is on
RtLevelOf(rq, t) == CHOOSE l \in 1 .. Len(rq.rt) : t \in Range(rq.rt[l])

\* C1: the task whose address is runqueue.curr is never an element of what
\* get_rt_runq_tasks yields nor of what get_cfs_runq_tasks yields, even when
\* it is linked into the lists.
C1_CurrNeverYielded ==
    /\ RtCalled => Curr(runqueue) \notin Range(rt_tasks)
    /\ CfsCalled => Curr(runqueue) \notin Range(cfs_tasks)

\* C9: get_rt_runq_tasks yields the tasks linked into the priority array,
\* each exactly once, level by level in ascending index order and in link
\* order within a level; an empty level contributes nothing.
C9_RtPriorityOrder ==
    RtCalled =>
        /\ Len(rt_tasks) = LinkedBefore(runqueue, Len(runqueue.rt) + 1)
        /\ \A l \in 1 .. Len(runqueue.rt) : \A j \in 1 .. Len(runqueue.rt[l]) :
              rt_tasks[LinkedBefore(runqueue, l) + j] = TaskAddr(runqueue.rt[l][j])
        /\ \A t \in RtLinked(runqueue) :
              Cardinality({p \in 1 .. Len(rt_tasks) : rt_tasks[p] = TaskAddr(t)}) = 1
        /\ \A p, q \in 1 .. Len(rt_tasks) :
              p < q =>
                \E t, u \in RtLinked(runqueue) :
                    /\ rt_tasks[p] = TaskAddr(t)
                    /\ rt_tasks[q] = TaskAddr(u)
                    /\ RtLevelOf(runqueue, t) <= RtLevelOf(runqueue, u)

\* a walk over two levels whose first level is linked against address order
C9_Witness ==
    /\ RtCalled
    /\ Len(runqueue.rt[1]) = 2
    /\ runqueue.rt[2] # <<>>
    /\ Len(rt_tasks) = 3
    /\ rt_tasks[1] > rt_tasks[2]
    /\ rt_tasks[3] = TaskAddr(runqueue.rt[2][1])

\* C10: get_cfs_runq_tasks yields exactly the addresses of the tasks linked
\* into cfs_tasks other than runqueue.curr, each once, in list order; no
\* yielded address is displaced from a linked task's address.
C10_CfsYieldsLinkedTasks ==
    CfsCalled =>
        LET waiting == SelectSeq(runqueue.cfs, LAMBDA t : t # runqueue.curr)
        IN /\ cfs_tasks = [j \in 1 .. Len(waiting) |-> TaskAddr(waiting[j])]
           /\ \A a \in Range(cfs_tasks) : \E t \in Range(runqueue.cfs) : a = TaskAddr(t)

-----------------------------------------------------------------------------
\* Properties of timestamp_str (SpecTs).

TsCalled == "timestamp_str" \in called

\* C8: timestamp_str(ns) is 'D HH:MM:SS.mmm' with mmm = (ns div 10^6) mod 1000,
\* SS = (ns div 10^9) mod 60, MM = (ns div 60*10^9) mod 60,
\* HH = (ns div 3600*10^9) mod 24 and D = ns div 86400*10^9, by truncating
\* division; the fields are in range, add up to ns div 10^6, and all but D
\* have a fixed width.
C8_TimestampFields ==
    TsCalled =>
        LET ms_all == ns.q
            mmm == ms_all % 1000
            SS  == (ms_all \div 1000) % 60
            MM  == (ms_all \div 60000) % 60
            HH  == (ms_all \div 3600000) % 24
            D   == ms_all \div 86400000
        IN /\ ts = Render(D, HH, MM, SS, mmm)
           /\ 0 <= mmm /\ mmm < 1000 /\ 0 <= SS /\ SS < 60
           /\ 0 <= MM /\ MM < 60 /\ 0 <= HH /\ HH < 24 /\ 0 <= D
           /\ D * 86400000 + HH * 3600000 + MM * 60000 + SS * 1000 + mmm = ms_all
           /\ Len(ts) = Len(ToStr(D)) + 13
           /\ ns.q = 0 => ts = "0 00:00:00.000"
           /\ ns.q = 90061000 => ts = "1 01:01:01.000"
           /\ ns.q = 86399999 => ts = "0 23:59:59.999"

\* 90_061_000_999_999 ns: the last nanosecond before the next millisecond
C8_Witness ==
    /\ TsCalled
    /\ ns = Ns(90061000, 999999)
    /\ ts = "1 01:01:01.000"

-----------------------------------------------------------------------------
\* Properties of dump_run_queue (Spec).

\* the CPUs get_rq_per_cpu yields for this invocation
Yielded == get_rq_per_cpu(online, cpus)

LagOut == SelectSeq(out, LAMBDA ln : ln.kind = "lag")

ClockCpus == {runq_clocks[k].cpu : k \in 1 .. Len(runq_clocks)}

\* C2: in lag mode no lag line is on the output while some CPU that
\* get_rq_per_cpu yields has no clock stored in runq_clocks.
C2_NoLagBeforeAllClocks ==
    LagOut # <<>> => Range(Yielded) \subseteq ClockCpus

\* lag lines are out for a run over at least two CPUs
C2_Witness ==
    /\ args.show_lag
    /\ LagOut # <<>>
    /\ Len(Yielded) >= 2
    /\ Len(runq_clocks) = Len(Yielded)

\* C3: in lag mode, whatever CPU list is requested, a run whose reads all
\* succeed ends with exactly one lag line for each CPU get_rq_per_cpu
\* yields, and with no other output.
C3_LagReportComplete ==
    (pc = "done" /\ args.show_lag) =>
        /\ Len(out) = Len(Yielded)
        /\ \A j \in 1 .. Len(out) : out[j].kind = "lag"
        /\ \A c \in Range(Yielded) :
              Cardinality({j \in 1 .. Len(out) : out[j].cpu = c}) = 1

\* C4: the lag report lists each collected CPU once with
\* lag = max(collected clocks) - its clock, ascending by lag and, for equal
\* lags, ascending by CPU; every lag is >= 0 and the first is 0.
C4_LagReportSorted ==
    LagOut # <<>> =>
        LET max_clock == SetMax({runq_clocks[k].clock : k \in 1 .. Len(runq_clocks)})
            ClockOf(c) == (CHOOSE k \in 1 .. Len(runq_clocks) : runq_clocks[k].cpu = c)
        IN /\ Len(LagOut) = Len(runq_clocks)
           /\ {LagOut[j].cpu : j \in 1 .. Len(LagOut)} = ClockCpus
           /\ \A j \in 1 .. Len(LagOut) :
                 /\ LagOut[j].val = max_clock - runq_clocks[ClockOf(LagOut[j].cpu)].clock
                 /\ LagOut[j].val >= 0
                 /\ LagOut[j].val = 0 =>
                       LagOut[j].text = "CPU " \o ToStr(LagOut[j].cpu) \o ": 0.00 secs"
           /\ \A j \in 1 .. (Len(LagOut) - 1) :
                 \/ LagOut[j].val < LagOut[j + 1].val
                 \/ /\ LagOut[j].val = LagOut[j + 1].val
                    /\ LagOut[j].cpu < LagOut[j + 1].cpu
           /\ LagOut[1].val = 0

\* clocks {0: less, 1: max}: CPU 1 is reported first, CPU 0 second with its
\* lag of 15 ms, which the binary float 0.015 prints as 0.01
C4_Witness ==
    /\ Len(LagOut) = 2
    /\ LagOut[1].cpu = 1 /\ LagOut[1].val = 0
    /\ LagOut[2].cpu = 0 /\ LagOut[2].val = ClockStep
    /\ LagOut[2].text = "CPU 0: 0.01 secs"

\* C5: get_rq_per_cpu yields the online CPUs the filter names (all of them
\* for an empty filter) in ascending order, or fails with InvalidSpec when
\* the filter names a CPU that is not online; it never drops one silently.
C5_EnumeratorValidates ==
    pc # "idle" =>
        IF Range(cpus) \subseteq Range(online)
        THEN /\ err # "InvalidSpec"
             /\ selected_cpus =
                    SelectSeq(online, LAMBDA c : cpus = <<>> \/ c \in Range(cpus))
        ELSE err = "InvalidSpec"

\* the lines of the last iteration's CPU
Block == SelectSeq(out, LAMBDA ln : ln.cpu = cpu)

PosOf(kind) == CHOOSE j \in 1 .. Len(Block) : Block[j].kind = kind

\* the RT and the CFS section of the block: what follows each heading
RtSection == SubSeq(Block, PosOf("rt_array") + 1, PosOf("cfs_root") - 1)

CfsSection == SubSeq(Block, PosOf("cfs_root") + 1, PosOf("blank") - 1)

CountKind(sec, kind) == Cardinality({j \in 1 .. Len(sec) : sec[j].kind = kind})

\* a section of a class whose waiting tasks (the current task apart) are W
SectionOk(sec, W, task_kind) ==
    IF W = {}
    THEN CountKind(sec, "no_tasks") = 1 /\ CountKind(sec, task_kind) = 0
    ELSE CountKind(sec, "no_tasks") = 0 /\ CountKind(sec, task_kind) = Cardinality(W)

\* C6: in default verbose mode, for every CPU and each class: with no
\* waiting task other than the current task exactly one '[no tasks queued]'
\* marker is printed, otherwise one line per waiting task and no marker.
C6_MarkerOrTaskLines ==
    (args = NoArgs /\ pc \in {"loop", "done"} /\ i >= 0) =>
        /\ SectionOk(RtSection, RtLinked(runqueue) \ {runqueue.curr}, "rt_task")
        /\ SectionOk(CfsSection, Range(runqueue.cfs) \ {runqueue.curr}, "cfs_task")

\* C7 as stated: when a read fails, nothing has been printed before it.
C7_NoOutputBeforeFailure ==
    pc = "failed" => out = <<>>

\* C7, amended: in lag mode and in the table modes (-t, -m) a read that
\* fails ends the command with that error and with nothing printed.
C7_BufferedModesFailClean ==
    (pc = "failed" /\ (args.show_lag \/ args.show_timestamps \/ args.pretty_runtime)) =>
        /\ out = <<>>
        /\ err = "AccessorError"

\* a later CPU's read fails in -m mode with a row already buffered
C7_Witness ==
    /\ pc = "failed"
    /\ args.pretty_runtime
    /\ Len(table) >= 1
    /\ out = <<>>

====
